---- MODULE Spec2Model ----
(***************************************************************************)
(* lake-cache: a cache-aside HTTP proxy in front of an S3 bucket.          *)
(*                                                                         *)
(*   src/src/store/cache.rs    LocalCache / LRUCache: a thread-local LRU   *)
(*                             cache with a TTL, kept as a HashMap plus a  *)
(*                             doubly linked list of Rc/Weak nodes.        *)
(*   src/src/store/cache2.rs   LRUCache2: a thread-local LRU cache with a  *)
(*                             TTL, kept as a HashMap, a VecDeque of keys  *)
(*                             and a HashMap of positions.                 *)
(*   src/src/store/s3_store.rs S3Store: get / set against the bucket.      *)
(*   src/src/main.rs           get_key / post_key handlers.                *)
(*                                                                         *)
(* Three specifications share one wall clock:                              *)
(*   SpecCache   calls of add_item / get_item on one LRUCache              *)
(*   SpecCache2  calls of set / get on one LRUCache2                       *)
(*   SpecProxy   requests served by get_key / post_key on worker threads   *)
(***************************************************************************)
EXTENDS Integers, Sequences, FiniteSets, TLC

VARIABLES
    clock,      \* wall clock, milliseconds since the epoch
    lru,        \* SpecCache: the LRUCache of the calling thread (cache.rs)
    data,       \* SpecCache2: the CacheData of the calling thread (cache2.rs)
    touched,    \* history: the held keys by most recent touch, most recent first
    lastCall,   \* history: the last cache call and what it returned
    caches,     \* SpecProxy: the CACHE thread_local of every thread (cache.rs)
    s3,         \* SpecProxy: the bucket's objects
    reqs,       \* SpecProxy: the requests in flight
    response,   \* SpecProxy: the response sent last
    served,     \* SpecProxy: the number of requests accepted so far
    fetched     \* history: the <<key, value>> pairs store.get has returned

cacheVars == <<lru, data, touched, lastCall>>
proxyVars == <<caches, s3, reqs, response, served, fetched>>
vars == <<clock, lru, data, touched, lastCall, caches, s3, reqs, response, served,
          fetched>>

\* ---------------------------------------------------------------- bounds

NumVals == 2
MaxCapacity == 2
MaxTtl == 1
TickMillis == 1000
MaxClock == 2000
NumWorkers == 2
NumReqs == 2
NumPaths == 2
MaxRequests == 2

\* Option::None; keys and values are numbered from 1.
None == 0
Vals == 1..NumVals

\* The keys of the calls on LRUCache: one more than the largest capacity, so
\* that a full cache is still given a key it does not hold.
Keys == 1..(MaxCapacity + 1)

\* The keys of the calls on LRUCache2: two more than the largest capacity.
Keys2 == 1..(MaxCapacity + 2)

\* Duration of one second in milliseconds (Duration::as_secs, ttl_seconds * 1000).
MillisPerSecond == 1000

\* ------------------------------------------------------ cache.rs: LRUCache

\* SystemTime::now().duration_since(UNIX_EPOCH).as_secs(): truncating.
now_seconds(ms) == ms \div MillisPerSecond

\* LRUCache::new. A node is named by the key it was created for: `map` holds
\* at most one node per key, and create_node runs only for a key not in `map`.
LRUCache_new(capacity, ttl_seconds) ==
    [capacity |-> capacity, ttl_seconds |-> ttl_seconds,
     map |-> [k \in {} |-> None], nodes |-> [n \in {} |-> None],
     head |-> None, tail |-> None]

\* Weak::upgrade: the node, if some Rc still keeps it alive.
upgrade(c, w) == IF w \in DOMAIN c.nodes THEN w ELSE None

\* Nodes kept alive by an Rc: the map's values, head, tail and `next` links.
RECURSIVE StrongClosure(_, _)
StrongClosure(c, S) ==
    LET T == (S \cup {c.nodes[n].next : n \in S \cap DOMAIN c.nodes}) \ {None}
    IN IF T = S THEN S ELSE StrongClosure(c, T)

\* Rc drop: a node no Rc refers to is freed.
DropUnreferenced(c) ==
    LET roots == ({c.map[k] : k \in DOMAIN c.map} \cup {c.head, c.tail}) \ {None}
        alive == StrongClosure(c, roots) \cap DOMAIN c.nodes
    IN [c EXCEPT !.nodes = [n \in alive |-> c.nodes[n]]]

create_node(c, key, value, ms) ==
    [key |-> key, value |-> value,
     expires_at |-> now_seconds(ms) + c.ttl_seconds,
     prev |-> None, next |-> None]

remove_node(c, n) ==
    LET prev_weak == c.nodes[n].prev
        next_opt == c.nodes[n].next
        c1 == [c EXCEPT !.nodes[n].prev = None, !.nodes[n].next = None]
        c2 == IF prev_weak # None
              THEN IF upgrade(c1, prev_weak) # None
                   THEN [c1 EXCEPT !.nodes[prev_weak].next = next_opt]
                   ELSE c1
              ELSE [c1 EXCEPT !.head = next_opt]
    IN IF next_opt # None
       THEN [c2 EXCEPT !.nodes[next_opt].prev = prev_weak]
       ELSE IF prev_weak # None
            THEN [c2 EXCEPT !.tail = upgrade(c2, prev_weak)]
            ELSE [c2 EXCEPT !.tail = None]

\* Faulty variant: the old head is not linked back to the new one.
add_to_head_NoBackLink(c, n) ==
    LET c1 == [c EXCEPT !.nodes[n].prev = None, !.nodes[n].next = c.head]
        c2 == IF c.head # None
              THEN c1
              ELSE [c1 EXCEPT !.tail = n]
    IN [c2 EXCEPT !.head = n]

add_to_head(c, n) ==
    LET c1 == [c EXCEPT !.nodes[n].prev = None, !.nodes[n].next = c.head]
        c2 == IF c.head # None
              THEN [c1 EXCEPT !.nodes[c.head].prev = n]
              ELSE [c1 EXCEPT !.tail = n]
    IN [c2 EXCEPT !.head = n]

\* Faulty variant: the node keeps its place in the list.
move_to_head_Stays(c, n) == c

move_to_head(c, n) == add_to_head(remove_node(c, n), n)

\* Faulty variant: the comparison is off by one.
OverCapacity_OffByOne(c) == Cardinality(DOMAIN c.map) > c.capacity + 1

\* self.map.len() > self.capacity
OverCapacity(c) == Cardinality(DOMAIN c.map) > c.capacity

\* The eviction of add_item: tail.take(), remove_node, map.remove.
EvictTail(c) ==
    IF c.tail # None
    THEN LET tail_node == c.tail
             tail_key == c.nodes[tail_node].key
             c1 == remove_node([c EXCEPT !.tail = None], tail_node)
         IN [c1 EXCEPT !.map = [k \in DOMAIN c1.map \ {tail_key} |-> c1.map[k]]]
    ELSE c

add_item(c, key, value, ms) ==
    IF key \in DOMAIN c.map
    THEN LET node == c.map[key]
         IN DropUnreferenced(
                move_to_head([c EXCEPT !.nodes[node].value = value], node))
    ELSE LET new_node == key
             c1 == [c EXCEPT !.nodes = [n \in DOMAIN c.nodes \cup {new_node} |->
                        IF n = new_node THEN create_node(c, key, value, ms)
                        ELSE c.nodes[n]]]
             c2 == add_to_head(c1, new_node)
             c3 == [c2 EXCEPT !.map = [k \in DOMAIN c2.map \cup {key} |->
                        IF k = key THEN new_node ELSE c2.map[k]]]
         IN DropUnreferenced(IF OverCapacity(c3) THEN EvictTail(c3) ELSE c3)

\* now_seconds() > node.expires_at
IsExpired(node, ms) == now_seconds(ms) > node.expires_at

\* get_item: the cache after the call and the value returned.
get_item(c, key, ms) ==
    IF key \in DOMAIN c.map
    THEN LET node == c.map[key]
         IN IF IsExpired(c.nodes[node], ms)
            THEN LET c1 == remove_node(c, node)
                 IN [cache |-> DropUnreferenced(
                        [c1 EXCEPT !.map = [k \in DOMAIN c1.map \ {key} |-> c1.map[k]]]),
                     result |-> None]
            ELSE [cache |-> DropUnreferenced(move_to_head(c, node)),
                  result |-> c.nodes[node].value]
    ELSE [cache |-> c, result |-> None]

\* --------------------------------------------------- cache2.rs: LRUCache2

\* current_time_millis(): the wall clock in milliseconds.
current_time_millis(ms) == ms

\* The CACHE_DATA thread_local after LRUCache2::new(capacity, ttl_seconds).
LRUCache2_new(capacity, ttl_seconds) ==
    [cache |-> [k \in {} |-> None], cache_index |-> [k \in {} |-> None],
     keys |-> <<>>, capacity |-> capacity, ttl_seconds |-> ttl_seconds]

\* VecDeque::remove(index), index from 0: nothing happens out of bounds.
VecDeque_remove(q, index) ==
    IF index < Len(q)
    THEN SubSeq(q, 1, index) \o SubSeq(q, index + 2, Len(q))
    ELSE q

\* HashMap::remove
HashMap_remove(m, key) == [k \in DOMAIN m \ {key} |-> m[k]]

\* HashMap::insert
HashMap_insert(m, key, v) == [k \in DOMAIN m \cup {key} |-> IF k = key THEN v ELSE m[k]]

push_item_to_front(d, key) ==
    LET keys1 == IF key \in DOMAIN d.cache_index
                 THEN VecDeque_remove(d.keys, d.cache_index[key])
                 ELSE d.keys
    IN [d EXCEPT !.keys = <<key>> \o keys1,
                 !.cache_index = HashMap_insert(d.cache_index, key, 0)]

evict_by_key(d, key) ==
    IF key \in DOMAIN d.cache_index
    THEN [d EXCEPT !.keys = VecDeque_remove(d.keys, d.cache_index[key]),
                   !.cache = HashMap_remove(d.cache, key),
                   !.cache_index = HashMap_remove(d.cache_index, key)]
    ELSE d

evict_if_necessary(d) ==
    IF Len(d.keys) > d.capacity /\ Len(d.keys) > 0
    THEN LET lru_key == d.keys[Len(d.keys)]
         IN [d EXCEPT !.keys = SubSeq(d.keys, 1, Len(d.keys) - 1),
                      !.cache = HashMap_remove(d.cache, lru_key),
                      !.cache_index = HashMap_remove(d.cache_index, lru_key)]
    ELSE d

\* Faulty variant: a lookup of a key not held drops the key at the back.
get_MissEvicts(d, key, ms) ==
    IF key \in DOMAIN d.cache
    THEN LET item == d.cache[key]
         IN IF item.expiration_time_millis > current_time_millis(ms)
            THEN [data |-> push_item_to_front(d, key), result |-> item.value]
            ELSE [data |-> evict_by_key(d, key), result |-> None]
    ELSE [data |-> evict_if_necessary([d EXCEPT !.capacity = 0]), result |-> None]

\* LRUCache2::get: the data after the call and the value returned.
get(d, key, ms) ==
    IF key \in DOMAIN d.cache
    THEN LET item == d.cache[key]
         IN IF item.expiration_time_millis > current_time_millis(ms)
            THEN [data |-> push_item_to_front(d, key), result |-> item.value]
            ELSE [data |-> evict_by_key(d, key), result |-> None]
    ELSE [data |-> d, result |-> None]

\* LRUCache2::set
set(d, key, value, ms) ==
    LET item == [value |-> value,
                 expiration_time_millis |->
                     current_time_millis(ms) + d.ttl_seconds * MillisPerSecond]
        d1 == [d EXCEPT !.cache = HashMap_insert(d.cache, key, item)]
    IN evict_if_necessary(push_item_to_front(d1, key))

\* ------------------------------------------------------------- history

\* The keys of seq q that are in set S, in q's order.
Restrict(q, S) == SelectSeq(q, LAMBDA k : k \in S)

\* The order of most recent touch, most recent first, of the keys in `held`
\* after key is touched.
Touch(key, held) == Restrict(<<key>> \o SelectSeq(touched, LAMBDA k : k # key), held)

NoCall == [op |-> "none", key |-> None, val |-> None, res |-> None, at |-> 0,
           gone |-> {}]

\* The record of a call: op(key, val) at clock `at` returned res, and the keys
\* `gone` were held before the call and are not after it.
Call(op, key, val, res, before, after) ==
    [op |-> op, key |-> key, val |-> val, res |-> res, at |-> clock,
     gone |-> before \ after]

\* -------------------------------------------------- s3_store.rs, main.rs

\* main() runs on the main thread; the handlers run on the runtime's workers.
MainThread == 0
Workers == 1..NumWorkers
Threads == {MainThread} \cup Workers
Reqs == 1..NumReqs
Paths == 1..NumPaths

\* LocalCache::new(1000, 120) in main().
ConfiguredCapacity == 1000
ConfiguredTtl == 120
\* LRUCache::new(1, 0), the initial value of the CACHE thread_local.
DefaultCapacity == 1
DefaultTtl == 0
\* The initial capacity and ttl_seconds of the CACHE_DATA thread_local.
DefaultCapacity2 == 0
DefaultTtl2 == 0

\* format!("{}/{}", self.store, key): the object's key in the bucket, for the
\* store "phi3" of main().
object_key(key) == <<"phi3", key>>

\* The bucket with the objects of content, a function of the request keys.
Bucket(content) ==
    [o \in {object_key(k) : k \in Paths} |-> content[o[2]]]

\* What S3Store::get can return for key: the object, ItemNotFound when the
\* bucket has none, S3ReadError at any time.
store_get(bucket, key) ==
    {[tag |-> "S3ReadError", content |-> None]} \cup
    (IF bucket[object_key(key)] # None
     THEN {[tag |-> "Ok", content |-> bucket[object_key(key)]]}
     ELSE {[tag |-> "ItemNotFound", content |-> None]})

\* What S3Store::set does to the bucket when it succeeds.
put_object(bucket, key, body) == [bucket EXCEPT ![object_key(key)] = body]

\* What S3Store::set can return.
store_set == {"Ok", "S3WriteError"}

\* A slot with no request in flight; a request in flight has its handler
\* (op), its path key and body val, the worker that ran its last step and the
\* calls of store.get and store.set it has made. History: `raced` says that
\* another get_key of the same key was awaiting store.get as well.
Idle == [pc |-> "idle", op |-> "none", key |-> None, val |-> None,
         thread |-> MainThread, gets |-> 0, sets |-> 0, raced |-> FALSE]

\* The get_key requests of key that have missed and await store.get.
Awaiting(key) == {q \in Reqs : reqs[q].pc = "store.get" /\ reqs[q].key = key}

\* No response sent yet; a response has the request's handler and key, whether
\* the lookup hit, the store calls the request made, and the status and body.
NoResponse == [op |-> "none", key |-> None, hit |-> FALSE, gets |-> 0, sets |-> 0,
               status |-> 0, body |-> None]

\* Faulty variant: the store is called whether or not the lookup hit.
get_key_lookup_AlwaysFetches(c, key, ms) ==
    LET r == get_item(c, key, ms)
    IN [cache |-> r.cache, content |-> r.result, store_calls |-> 1]

\* get_key up to its await: the lookup, and on a miss the call of store.get.
get_key_lookup(c, key, ms) ==
    LET r == get_item(c, key, ms)
    IN [cache |-> r.cache, content |-> r.result,
        store_calls |-> IF r.result # None THEN 0 ELSE 1]

\* Faulty variant: the value fetched is cached under the next key.
get_key_match_CachesOtherKey(c, key, res, ms) ==
    IF res.tag = "ItemNotFound" THEN [cache |-> c, status |-> 404, body |-> None]
    ELSE IF res.tag # "Ok" THEN [cache |-> c, status |-> 500, body |-> None]
    ELSE [cache |-> add_item(c, (key % NumPaths) + 1, res.content, ms),
          status |-> 200, body |-> res.content]

\* Faulty variant: a key the bucket does not have is cached as an empty value.
get_key_match_CachesNotFound(c, key, res, ms) ==
    IF res.tag = "ItemNotFound"
    THEN [cache |-> add_item(c, key, None, ms), status |-> 404, body |-> None]
    ELSE IF res.tag # "Ok" THEN [cache |-> c, status |-> 500, body |-> None]
    ELSE [cache |-> add_item(c, key, res.content, ms),
          status |-> 200, body |-> res.content]

\* get_key after its await: the match on the result of store.get.
get_key_match(c, key, res, ms) ==
    IF res.tag = "ItemNotFound" THEN [cache |-> c, status |-> 404, body |-> None]
    ELSE IF res.tag # "Ok" THEN [cache |-> c, status |-> 500, body |-> None]
    ELSE [cache |-> add_item(c, key, res.content, ms),
          status |-> 200, body |-> res.content]

\* post_key after its await: the status for the result of store.set.
post_key_status(res) == IF res # "Ok" THEN 500 ELSE 201

\* Faulty variant: LocalCache::new configures the cache of every thread.
InitServer_ConfiguresAll ==
    /\ caches = [t \in Threads |-> LRUCache_new(ConfiguredCapacity, ConfiguredTtl)]
    /\ reqs = [r \in Reqs |-> Idle]
    /\ response = NoResponse
    /\ served = 0
    /\ fetched = {}

InitServer ==
    /\ caches = [t \in Threads |->
                    IF t = MainThread
                    THEN LRUCache_new(ConfiguredCapacity, ConfiguredTtl)
                    ELSE LRUCache_new(DefaultCapacity, DefaultTtl)]
    /\ reqs = [r \in Reqs |-> Idle]
    /\ response = NoResponse
    /\ served = 0
    /\ fetched = {}

\* ------------------------------------------------------------- actions

InitCache ==
    /\ clock = 0
    /\ \E capacity \in 1..MaxCapacity, ttl \in 0..MaxTtl :
          lru = LRUCache_new(capacity, ttl)
    /\ data = LRUCache2_new(DefaultCapacity2, DefaultTtl2)
    /\ touched = <<>>
    /\ lastCall = NoCall
    /\ InitServer
    /\ s3 = Bucket([k \in Paths |-> None])

InitCache2 ==
    /\ clock = 0
    /\ lru = LRUCache_new(DefaultCapacity, DefaultTtl)
    /\ \E capacity \in 1..MaxCapacity, ttl \in 0..MaxTtl :
          data = LRUCache2_new(capacity, ttl)
    /\ touched = <<>>
    /\ lastCall = NoCall
    /\ InitServer
    /\ s3 = Bucket([k \in Paths |-> None])

\* Time passes between calls.
Tick ==
    /\ clock + TickMillis <= MaxClock
    /\ clock' = clock + TickMillis
    /\ UNCHANGED <<cacheVars, proxyVars>>

\* LocalCache::add_item on the calling thread's CACHE.
LocalCache_add_item(key, value) ==
    /\ lru' = add_item(lru, key, value, clock)
    /\ touched' = Touch(key, DOMAIN lru'.map)
    /\ lastCall' = Call("add_item", key, value, None, DOMAIN lru.map, DOMAIN lru'.map)
    /\ UNCHANGED <<clock, data, proxyVars>>

\* LocalCache::get_item on the calling thread's CACHE.
LocalCache_get_item(key) ==
    LET r == get_item(lru, key, clock)
    IN /\ lru' = r.cache
       /\ touched' = IF r.result # None
                     THEN Touch(key, DOMAIN lru'.map)
                     ELSE Restrict(touched, DOMAIN lru'.map)
       /\ lastCall' = Call("get_item", key, None, r.result,
                           DOMAIN lru.map, DOMAIN lru'.map)
       /\ UNCHANGED <<clock, data, proxyVars>>

\* LRUCache2::set on the calling thread's CACHE_DATA.
LRUCache2_set(key, value) ==
    /\ data' = set(data, key, value, clock)
    /\ touched' = Touch(key, DOMAIN data'.cache)
    /\ lastCall' = Call("set", key, value, None, DOMAIN data.cache, DOMAIN data'.cache)
    /\ UNCHANGED <<clock, lru, proxyVars>>

\* LRUCache2::get on the calling thread's CACHE_DATA.
LRUCache2_get(key) ==
    LET r == get(data, key, clock)
    IN /\ data' = r.data
       /\ touched' = IF r.result # None
                     THEN Touch(key, DOMAIN data'.cache)
                     ELSE Restrict(touched, DOMAIN data'.cache)
       /\ lastCall' = Call("get", key, None, r.result,
                           DOMAIN data.cache, DOMAIN data'.cache)
       /\ UNCHANGED <<clock, lru, proxyVars>>

NextCache ==
    \/ Tick
    \/ \E key \in Keys, value \in Vals : LocalCache_add_item(key, value)
    \/ \E key \in Keys : LocalCache_get_item(key)

NextCache2 ==
    \/ Tick
    \/ \E key \in Keys2, value \in Vals : LRUCache2_set(key, value)
    \/ \E key \in Keys2 : LRUCache2_get(key)

SpecCache == InitCache /\ [][NextCache]_vars

SpecCache2 == InitCache2 /\ [][NextCache2]_vars

\* Both caches, built with the same capacity and ttl, are given the same calls.
InitBoth ==
    /\ clock = 0
    /\ \E capacity \in 1..MaxCapacity, ttl \in 0..MaxTtl :
          /\ lru = LRUCache_new(capacity, ttl)
          /\ data = LRUCache2_new(capacity, ttl)
    /\ touched = <<>>
    /\ lastCall = NoCall
    /\ InitServer
    /\ s3 = Bucket([k \in Paths |-> None])

\* LocalCache::add_item(key, value) and LRUCache2::set(key, value).
Both_insert(key, value) ==
    /\ lru' = add_item(lru, key, value, clock)
    /\ data' = set(data, key, value, clock)
    /\ lastCall' = [NoCall EXCEPT !.op = "insert", !.key = key]
    /\ UNCHANGED <<clock, touched, proxyVars>>

\* LocalCache::get_item(key) and LRUCache2::get(key); the call record holds
\* what the two returned, in this order, and the keys either of them removed.
Both_lookup(key) ==
    LET r == get_item(lru, key, clock)
        r2 == get(data, key, clock)
    IN /\ lru' = r.cache
       /\ data' = r2.data
       /\ lastCall' = [NoCall EXCEPT
                          !.op = "lookup", !.key = key,
                          !.res = <<r.result, r2.result>>,
                          !.gone = (DOMAIN lru.map \cup DOMAIN data.cache)
                                       \ (DOMAIN lru'.map \cap DOMAIN data'.cache)]
       /\ UNCHANGED <<clock, touched, proxyVars>>

NextBoth ==
    \/ Tick
    \/ \E key \in Keys, value \in Vals : Both_insert(key, value)
    \/ \E key \in Keys : Both_lookup(key)

SpecBoth == InitBoth /\ [][NextBoth]_vars

\* The server starts with a bucket that holds one object.
InitProxy ==
    /\ clock = 0
    /\ lru = LRUCache_new(DefaultCapacity, DefaultTtl)
    /\ data = LRUCache2_new(DefaultCapacity2, DefaultTtl2)
    /\ touched = <<>>
    /\ lastCall = NoCall
    /\ InitServer
    /\ s3 = Bucket([k \in Paths |-> IF k = 1 THEN 1 ELSE None])

\* The slot a new request is served in: the first one with no request in flight
\* (which slot it is makes no difference to the server).
FreeSlot(r) ==
    /\ reqs[r].pc = "idle"
    /\ \A q \in Reqs : q < r => reqs[q].pc # "idle"

\* A request GET /keys/:key arrives and worker t runs get_key to its await:
\* on a hit the response is sent, on a miss store.get is called.
get_key(r, t, key) ==
    /\ FreeSlot(r)
    /\ served < MaxRequests
    /\ served' = served + 1
    /\ LET l == get_key_lookup(caches[t], key, clock)
       IN /\ caches' = [caches EXCEPT ![t] = l.cache]
          /\ IF l.content # None
             THEN /\ response' = [op |-> "get_key", key |-> key, hit |-> TRUE,
                                  gets |-> l.store_calls, sets |-> 0,
                                  status |-> 200, body |-> l.content]
                  /\ reqs' = reqs
             ELSE /\ reqs' = [q \in Reqs |->
                        IF q = r
                        THEN [Idle EXCEPT !.pc = "store.get", !.op = "get_key",
                                          !.key = key, !.thread = t,
                                          !.gets = l.store_calls,
                                          !.raced = (Awaiting(key) # {})]
                        ELSE IF q \in Awaiting(key)
                             THEN [reqs[q] EXCEPT !.raced = TRUE]
                             ELSE reqs[q]]
                  /\ response' = response
    /\ UNCHANGED <<clock, cacheVars, s3, fetched>>

\* store.get answers and worker t runs the rest of get_key.
get_key_resume(r, t) ==
    /\ reqs[r].pc = "store.get"
    /\ \E res \in store_get(s3, reqs[r].key) :
          LET m == get_key_match(caches[t], reqs[r].key, res, clock)
          IN /\ caches' = [caches EXCEPT ![t] = m.cache]
             /\ response' = [op |-> "get_key", key |-> reqs[r].key, hit |-> FALSE,
                             gets |-> reqs[r].gets, sets |-> reqs[r].sets,
                             status |-> m.status, body |-> m.body]
             /\ fetched' = IF res.tag = "Ok"
                           THEN fetched \cup {<<reqs[r].key, res.content>>}
                           ELSE fetched
    /\ reqs' = [reqs EXCEPT ![r] = Idle]
    /\ UNCHANGED <<clock, cacheVars, s3, served>>

\* A request POST /keys/:key arrives and post_key runs to its await: store.set
\* is called (post_key uses nothing of the worker it runs on).
post_key(r, key, payload) ==
    /\ FreeSlot(r)
    /\ served < MaxRequests
    /\ served' = served + 1
    /\ reqs' = [reqs EXCEPT ![r] =
          [Idle EXCEPT !.pc = "store.set", !.op = "post_key", !.key = key,
                       !.val = payload, !.sets = 1]]
    /\ UNCHANGED <<clock, cacheVars, caches, s3, response, fetched>>

\* Faulty variant: a successful write also updates the entry cached for the key.
post_key_resume_WriteThrough(r) ==
    /\ reqs[r].pc = "store.set"
    /\ \E res \in store_set :
          /\ s3' = IF res = "Ok" THEN put_object(s3, reqs[r].key, reqs[r].val) ELSE s3
          /\ caches' = [t \in Threads |->
                IF res = "Ok" /\ reqs[r].key \in DOMAIN caches[t].map
                THEN add_item(caches[t], reqs[r].key, reqs[r].val, clock)
                ELSE caches[t]]
          /\ response' = [op |-> "post_key", key |-> reqs[r].key, hit |-> FALSE,
                          gets |-> reqs[r].gets, sets |-> reqs[r].sets,
                          status |-> post_key_status(res), body |-> None]
    /\ reqs' = [reqs EXCEPT ![r] = Idle]
    /\ UNCHANGED <<clock, cacheVars, served, fetched>>

\* store.set answers (the object is written when it succeeds) and post_key
\* returns the status.
post_key_resume(r) ==
    /\ reqs[r].pc = "store.set"
    /\ \E res \in store_set :
          /\ s3' = IF res = "Ok" THEN put_object(s3, reqs[r].key, reqs[r].val) ELSE s3
          /\ response' = [op |-> "post_key", key |-> reqs[r].key, hit |-> FALSE,
                          gets |-> reqs[r].gets, sets |-> reqs[r].sets,
                          status |-> post_key_status(res), body |-> None]
    /\ reqs' = [reqs EXCEPT ![r] = Idle]
    /\ UNCHANGED <<clock, cacheVars, caches, served, fetched>>

NextProxy ==
    \/ Tick
    \/ \E r \in Reqs, t \in Workers, key \in Paths : get_key(r, t, key)
    \/ \E r \in Reqs, t \in Workers : get_key_resume(r, t)
    \/ \E r \in Reqs, key \in Paths, payload \in Vals : post_key(r, key, payload)
    \/ \E r \in Reqs : post_key_resume(r)

SpecProxy == InitProxy /\ [][NextProxy]_vars

\* ------------------------------------------------ cache.rs: capacity (C1)

\* The keys of the nodes reached from head by `next`, at most fuel of them.
RECURSIVE ListFrom(_, _, _)
ListFrom(c, n, fuel) ==
    IF n = None \/ n \notin DOMAIN c.nodes \/ fuel = 0
    THEN <<>>
    ELSE <<c.nodes[n].key>> \o ListFrom(c, c.nodes[n].next, fuel - 1)

List(c) == ListFrom(c, c.head, Cardinality(DOMAIN c.nodes) + 1)

\* ---------------------------------------------------------------- claims

\* A step of SpecCache or SpecCache2 that is a call: every action but Tick
\* leaves the clock alone and records the call it makes in lastCall'.
IsCall(op) == clock' = clock /\ lastCall'.op = op

\* What get_item would return for key now.
Lookup(c, key) == get_item(c, key, clock).result

\* What LRUCache2::get would return for key now.
Lookup2(d, key) == get(d, key, clock).result

\* The node names used by the model stand for distinct live nodes: the nodes
\* alive are exactly the nodes the map holds, each under the key it was
\* created for.
NodeNamingSound ==
    /\ DOMAIN lru.nodes = {lru.map[k] : k \in DOMAIN lru.map}
    /\ \A k \in DOMAIN lru.map : lru.nodes[lru.map[k]].key = k

\* C1: LRUCache with capacity C >= 1: after every add_item and get_item the
\* number of entries held (the size of `map`, which is the length of the list
\* from head) is at most C.
C1_CapacityBound ==
    /\ Cardinality(DOMAIN lru.map) <= lru.capacity
    /\ Len(List(lru)) = Cardinality(DOMAIN lru.map)

\* C1's case: an add_item of a new key has evicted an entry of a full cache.
C1_Witness ==
    /\ lastCall.op = "add_item"
    /\ lastCall.gone # {}
    /\ lru.capacity > 1
    /\ Cardinality(DOMAIN lru.map) = lru.capacity

\* C2 (as claimed): LRUCache2 with capacity C >= 1: after every set and get the
\* number of keys with a stored value (the size of `cache`) is at most C.
C2_CapacityBound2 == Cardinality(DOMAIN data.cache) <= data.capacity

\* C3: in LRUCache, an add_item of a key not held that brings the count above
\* capacity removes exactly one entry, the one whose most recent touch is the
\* oldest among the entries held; every other entry and the new key stay, with
\* their values, and are returned by get_item as before.
C3_EvictsLeastRecentlyTouched ==
    [][(/\ IsCall("add_item")
        /\ lastCall'.key \notin DOMAIN lru.map
        /\ Cardinality(DOMAIN lru.map) + 1 > lru.capacity)
       => LET key == lastCall'.key
              held == DOMAIN lru.map
              oldest == touched[Len(touched)]
          IN /\ oldest \in held
             /\ DOMAIN lru'.map = (held \cup {key}) \ {oldest}
             /\ \A k \in held \ {oldest} :
                   /\ lru'.nodes[lru'.map[k]].value = lru.nodes[lru.map[k]].value
                   /\ Lookup(lru', k) = Lookup(lru, k)
             /\ lru'.nodes[lru'.map[key]].value = lastCall'.val
             /\ Lookup(lru', key) = lastCall'.val]_vars

\* C3's case: an add_item of a new key has evicted an entry, and the new key is
\* held as the most recently touched of a cache that is full again.
C3_Witness ==
    /\ lastCall.op = "add_item"
    /\ lastCall.gone # {}
    /\ lastCall.key \notin lastCall.gone
    /\ Len(touched) = lru.capacity
    /\ touched[1] = lastCall.key
    /\ Lookup(lru, lastCall.key) = lastCall.val

\* C4 (as claimed): in LRUCache2, a set of a key not held that pushes the store
\* over capacity removes the one entry whose most recent touch is the oldest
\* among the entries held, and every other entry is still returned by get.
C4_EvictsLeastRecentlyTouched2 ==
    [][(/\ IsCall("set")
        /\ lastCall'.key \notin DOMAIN data.cache
        /\ Cardinality(DOMAIN data.cache) + 1 > data.capacity)
       => LET key == lastCall'.key
              held == DOMAIN data.cache
              oldest == touched[Len(touched)]
          IN /\ oldest \in held
             /\ DOMAIN data'.cache = (held \cup {key}) \ {oldest}
             /\ \A k \in held \ {oldest} : Lookup2(data', k) = Lookup2(data, k)]_vars

\* C5 (as claimed): get_item never returns the value of an entry whose
\* expires_at is at or before now: it returns None and removes the entry from
\* the map and from the list.
C5_ExpiredAtOrBeforeNow ==
    [][(/\ IsCall("get_item")
        /\ lastCall'.key \in DOMAIN lru.map
        /\ lru.nodes[lru.map[lastCall'.key]].expires_at <= now_seconds(clock))
       => /\ lastCall'.res = None
          /\ lastCall'.key \notin DOMAIN lru'.map
          /\ \A i \in 1..Len(List(lru')) : List(lru')[i] # lastCall'.key]_vars

\* C6 (as claimed): add_item of a key already held leaves the count unchanged,
\* replaces the value, moves the entry to the head and resets its expires_at
\* to now + ttl.
C6_UpdateResetsExpiry ==
    [][(/\ IsCall("add_item")
        /\ lastCall'.key \in DOMAIN lru.map)
       => LET key == lastCall'.key
          IN /\ DOMAIN lru'.map = DOMAIN lru.map
             /\ lru'.nodes[lru'.map[key]].value = lastCall'.val
             /\ lru'.head = lru'.map[key]
             /\ lru'.nodes[lru'.map[key]].expires_at
                    = now_seconds(clock) + lru.ttl_seconds]_vars

\* C7 (as claimed): in LRUCache2 with capacity >= 1 and ttl > 0, set(k, v)
\* followed at once by get(k), less than ttl later, returns Some(v).
C7_SetThenGet ==
    [][(/\ lastCall.op = "set"
        /\ IsCall("get")
        /\ lastCall'.key = lastCall.key
        /\ data.capacity >= 1 /\ data.ttl_seconds > 0
        /\ clock - lastCall.at < data.ttl_seconds * MillisPerSecond)
       => lastCall'.res = lastCall.val]_vars

\* C8 (as claimed): in LRUCache with capacity >= 1 and ttl T > 0, add_item(k, v)
\* followed by get_item(k) less than T seconds later, no call in between,
\* returns Some(v), whether or not k was held before the add_item.
C8_AddThenGet ==
    [][(/\ lastCall.op = "add_item"
        /\ IsCall("get_item")
        /\ lastCall'.key = lastCall.key
        /\ lru.capacity >= 1 /\ lru.ttl_seconds > 0
        /\ clock - lastCall.at < lru.ttl_seconds * MillisPerSecond)
       => lastCall'.res = lastCall.val]_vars

\* C9: get_key calls the store not at all when the lookup hits and calls
\* store.get exactly once when it misses; post_key calls store.set exactly
\* once; no request makes a second store call, whatever the store answers.
C9_OneStoreCall ==
    /\ \A r \in Reqs :
          /\ reqs[r].gets + reqs[r].sets <= 1
          /\ reqs[r].pc = "store.get" => (reqs[r].gets = 1 /\ reqs[r].sets = 0)
          /\ reqs[r].pc = "store.set" => (reqs[r].gets = 0 /\ reqs[r].sets = 1)
    /\ response.op = "get_key" =>
          /\ response.sets = 0
          /\ response.gets = IF response.hit THEN 0 ELSE 1
    /\ response.op = "post_key" => (response.gets = 0 /\ response.sets = 1)

\* C9's case: get_key has answered with a 500 after store.get failed, while a
\* cache holds an entry that get_key can answer from without the store.
C9_Witness ==
    /\ response.op = "get_key" /\ response.status = 500 /\ response.gets = 1
    /\ \E t \in Workers, k \in Paths : Lookup(caches[t], k) # None

\* The step in which request r gets an error from store.get and get_key returns.
StoreGetFails(r) ==
    /\ reqs[r].pc = "store.get"
    /\ reqs'[r].pc = "idle"
    /\ response'.status \in {404, 500}

\* C10 (as claimed): when store.get returns ItemNotFound or another error, the
\* cache (here: the one the lookup of this request missed in) holds no entry
\* for the key afterwards.
C10_NoEntryAfterError ==
    [][\A r \in Reqs :
          StoreGetFails(r) =>
              reqs[r].key \notin DOMAIN caches'[reqs[r].thread].map]_vars

\* C10 (amended): when store.get returns ItemNotFound or another error, the
\* rest of get_key calls no add_item: every thread's cache is as it was before
\* the answer, so a cache holds the key afterwards only if it held it before.
C10_ErrorLeavesCaches ==
    [][\A r \in Reqs : StoreGetFails(r) => caches' = caches]_vars

\* C10's case: get_key has answered with an error of store.get while a cache
\* holds an entry for the key.
C10_Witness ==
    /\ response.op = "get_key" /\ response.status \in {404, 500}
    /\ \E t \in Workers : response.key \in DOMAIN caches[t].map

\* C11 (as claimed): once a get_key of key k has missed, fetched the value with
\* store.get and inserted it with add_item, a later get_key of k before the
\* entry expires is answered from the cache: no get_key calls store.get for a
\* key while a cache of the server holds an entry for it that has not expired.
C11_NoRefetchBeforeExpiry ==
    [][\A r \in Reqs :
          (reqs[r].pc = "idle" /\ reqs'[r].pc = "store.get") =>
              \A t \in Workers : Lookup(caches[t], reqs'[r].key) = None]_vars

\* A step of post_key for request r: the request arrives and store.set is
\* called, or store.set answers and the status is returned.
PostKeyStep(r) ==
    \/ reqs[r].pc = "idle" /\ reqs'[r].pc = "store.set"
    \/ reqs[r].pc = "store.set" /\ reqs'[r].pc = "idle"

\* C12: post_key neither reads nor changes a cache, whether store.set succeeds
\* or fails: the cached keys, their values, expirations and recency order
\* (map, nodes, head and tail of every thread's cache) are the same before and
\* after each of its steps, so an entry cached for the written key keeps its
\* previous value.
C12_PostKeyLeavesCaches ==
    [][\A r \in Reqs : PostKeyStep(r) => caches' = caches]_vars

\* C12's case: post_key has written a key to the bucket while a cache holds an
\* entry for that key, and the entry still has the value from before the write.
C12_Witness ==
    /\ response.op = "post_key" /\ response.status = 201
    /\ \E t \in Workers :
          /\ response.key \in DOMAIN caches[t].map
          /\ caches[t].nodes[caches[t].map[response.key]].value
                 # s3[object_key(response.key)]

\* The step in which store.get answers request r with the object and get_key
\* inserts it with add_item, r being the last to complete of several get_key
\* requests of the same key that all missed before any of them inserted.
LastOfRaceInserts(r) ==
    /\ reqs[r].pc = "store.get" /\ reqs[r].raced
    /\ reqs'[r].pc = "idle" /\ response'.status = 200
    /\ Awaiting(reqs[r].key) = {r}

\* The capacity bound and the map/list consistency of every worker's cache.
CachesIntact ==
    \A t \in Workers :
        /\ Cardinality(DOMAIN caches[t].map) <= caches[t].capacity
        /\ Len(List(caches[t])) = Cardinality(DOMAIN caches[t].map)
        /\ {List(caches[t])[i] : i \in 1..Len(List(caches[t]))} = DOMAIN caches[t].map

\* C13 (as claimed): when the last of several concurrent get_key requests of
\* one key that all missed has inserted, the cache of the server holds exactly
\* one entry for the key, with the value of that last add_item, and every
\* step leaves the capacity bound and the map/list consistency intact.
C13_RaceLeavesOneEntry ==
    [][/\ CachesIntact'
       /\ \A r \in Reqs : LastOfRaceInserts(r) =>
            /\ Cardinality({t \in Workers : reqs[r].key \in DOMAIN caches'[t].map}) = 1
            /\ \A t \in Workers : reqs[r].key \in DOMAIN caches'[t].map =>
                  caches'[t].nodes[caches'[t].map[reqs[r].key]].value = response'.body]_vars

\* C14: a lookup of a key that is not in the cache has no side effect:
\* LRUCache::get_item and LRUCache2::get return None and leave the stored keys,
\* values, expiration times and recency order (the whole of the cache's state)
\* exactly as they were.
C14_MissHasNoEffect ==
    [][IsCall("lookup") =>
          LET key == lastCall'.key
          IN /\ key \notin DOMAIN lru.map =>
                   (lastCall'.res[1] = None /\ lru' = lru)
             /\ key \notin DOMAIN data.cache =>
                   (lastCall'.res[2] = None /\ data' = data)]_vars

\* C14's case: both caches hold entries and have just been asked for a key
\* that neither of them held (both returned None and nothing was removed).
C14_Witness ==
    /\ lastCall.op = "lookup"
    /\ lastCall.res = <<None, None>>
    /\ lastCall.gone = {}
    /\ lastCall.key \notin DOMAIN lru.map \cup DOMAIN data.cache
    /\ DOMAIN lru.map # {}
    /\ DOMAIN data.cache # {}

\* C15: in LRUCache, after every add_item and get_item (eviction and removal
\* of an expired entry included) the keys of `map` are exactly the keys of the
\* nodes reached from `head` by `next`, each once; `head` is None iff `tail` is
\* None iff the map is empty; `tail` is the last node reached from `head`; and
\* each node's `prev` is the node whose `next` is that node (None for head).
C15_MapMatchesList ==
    LET l == List(lru)
        nodes == lru.nodes
    IN /\ Len(l) = Cardinality(DOMAIN lru.map)
       /\ {l[i] : i \in 1..Len(l)} = DOMAIN lru.map
       /\ (lru.head = None) <=> (lru.tail = None)
       /\ (lru.head = None) <=> (DOMAIN lru.map = {})
       /\ lru.tail # None =>
             /\ lru.tail \in DOMAIN nodes
             /\ nodes[lru.tail].next = None
             /\ nodes[lru.tail].key = l[Len(l)]
       /\ lru.head # None => (lru.head \in DOMAIN nodes /\ nodes[lru.head].prev = None)
       /\ \A n \in DOMAIN nodes :
             /\ nodes[n].next # None =>
                   (nodes[n].next \in DOMAIN nodes /\ nodes[nodes[n].next].prev = n)
             /\ nodes[n].prev # None =>
                   (nodes[n].prev \in DOMAIN nodes /\ nodes[nodes[n].prev].next = n)

\* C15's case: a get_item has removed an expired entry from a list that still
\* holds another entry.
C15_Witness ==
    /\ lastCall.op = "get_item"
    /\ lastCall.gone = {lastCall.key}
    /\ lastCall.res = None
    /\ Cardinality(DOMAIN lru.map) = 1
    /\ Len(List(lru)) = 1

\* C16 (as claimed): in LRUCache2, after every set and get, every key stored in
\* `cache` (and `cache_index`) appears exactly once in `keys`, every element of
\* `keys` is a key stored in `cache`, and the position `cache_index` records
\* for a key is the position of that key in `keys`.
C16_KeysMatchCache2 ==
    LET keys == data.keys
    IN /\ DOMAIN data.cache_index = DOMAIN data.cache
       /\ \A k \in DOMAIN data.cache :
             Cardinality({i \in 1..Len(keys) : keys[i] = k}) = 1
       /\ \A i \in 1..Len(keys) : keys[i] \in DOMAIN data.cache
       /\ \A k \in DOMAIN data.cache_index :
             /\ data.cache_index[k] < Len(keys)
             /\ keys[data.cache_index[k] + 1] = k

\* C17 (as claimed): in LRUCache2, a get(k) that finds k expired (now at or
\* after its expiration_time_millis) returns None and removes exactly k from
\* `cache`, `cache_index` and `keys` in that call, and leaves every other
\* key's value, expiration and position in `keys` unchanged.
C17_ExpiredGetRemovesKey ==
    [][(/\ IsCall("get")
        /\ lastCall'.key \in DOMAIN data.cache
        /\ data.cache[lastCall'.key].expiration_time_millis
               <= current_time_millis(clock))
       => LET key == lastCall'.key
          IN /\ lastCall'.res = None
             /\ DOMAIN data'.cache = DOMAIN data.cache \ {key}
             /\ DOMAIN data'.cache_index = DOMAIN data.cache_index \ {key}
             /\ data'.keys = SelectSeq(data.keys, LAMBDA k : k # key)
             /\ \A k \in DOMAIN data.cache \ {key} :
                   data'.cache[k] = data.cache[k]]_vars

\* The entries of LRUCache c: each key held with its value and expires_at.
Entries(c) ==
    [k \in DOMAIN c.map |->
        <<c.nodes[c.map[k]].value, c.nodes[c.map[k]].expires_at>>]

\* A lookup that hits leaves every entry's value and expiration as they were,
\* in both caches (it changes the recency order only).
HitLeavesEntries ==
    IsCall("lookup") =>
        /\ lastCall'.res[1] # None => Entries(lru') = Entries(lru)
        /\ lastCall'.res[2] # None => data'.cache = data.cache

\* C18 (as claimed): a successful lookup never extends an entry's lifetime: a
\* get_item hit and a get hit leave the entry's expiration time and value
\* unchanged and change the recency order only, so that a lookup of an entry
\* at its expiration time, however often it was read, is a miss.
C18_ReadNeverExtends ==
    [][/\ HitLeavesEntries
       /\ IsCall("lookup") =>
            LET key == lastCall'.key
            IN /\ (/\ key \in DOMAIN lru.map
                   /\ now_seconds(clock) >= lru.nodes[lru.map[key]].expires_at)
                  => lastCall'.res[1] = None
               /\ (/\ key \in DOMAIN data.cache
                   /\ current_time_millis(clock)
                          >= data.cache[key].expiration_time_millis)
                  => lastCall'.res[2] = None]_vars

\* LocalCache::new(capacity, ttl) has configured the cache of the thread that
\* called it, and every other thread has the default capacity 1 and ttl 0.
OnlyCallerConfigured ==
    /\ caches[MainThread].capacity = ConfiguredCapacity
    /\ caches[MainThread].ttl_seconds = ConfiguredTtl
    /\ \A t \in Workers :
          /\ caches[t].capacity = DefaultCapacity
          /\ caches[t].ttl_seconds = DefaultTtl

\* C19: LocalCache keeps one independent cache per thread. An add_item made on
\* one thread through the shared handle puts the entry into that thread's
\* cache and leaves the cache of every other thread, and so what get_item
\* returns there, as it was; LocalCache::new configures the calling thread's
\* cache only, every other thread working with capacity 1 and ttl 0.
C19_OneCachePerThread ==
    [][/\ OnlyCallerConfigured'
       /\ Cardinality({t \in Threads : caches'[t] # caches[t]}) <= 1
       /\ \A r \in Reqs :
            (reqs[r].pc = "store.get" /\ reqs'[r].pc = "idle" /\ response'.status = 200)
            => \E t \in Workers :
                  /\ reqs[r].key \in DOMAIN caches'[t].map
                  /\ caches'[t].nodes[caches'[t].map[reqs[r].key]].value = response'.body
                  /\ \A u \in Threads \ {t} :
                        /\ caches'[u] = caches[u]
                        /\ \A k \in Paths : Lookup(caches'[u], k) = Lookup(caches[u], k)]_vars

\* C19's case: get_key has inserted a key on one worker, and the other worker,
\* asked for the same key, does not have it.
C19_Witness ==
    /\ response.op = "get_key" /\ response.status = 200
    /\ \E t \in Workers, u \in Workers :
          /\ t # u
          /\ Lookup(caches[t], response.key) = response.body
          /\ Lookup(caches[u], response.key) = None

\* C20: every body get_key returns with a success response for key k is a
\* value that store.get returned for the same key k, to this or to an earlier
\* get_key; and every value a cache holds under k was fetched for k, so that
\* no lookup returns a value inserted under another key or one that was only
\* passed to post_key.
C20_ValueIntegrity ==
    /\ (response.op = "get_key" /\ response.status = 200) =>
          <<response.key, response.body>> \in fetched
    /\ \A t \in Threads : \A k \in DOMAIN caches[t].map :
          <<k, caches[t].nodes[caches[t].map[k]].value>> \in fetched

\* C20's case: get_key has answered from the cache, with the value that
\* store.get returned to the earlier get_key of the key.
C20_Witness ==
    /\ response.op = "get_key" /\ response.hit /\ response.status = 200
    /\ response.gets = 0
    /\ fetched = {<<response.key, response.body>>}

====
